---- MODULE Spec2Model ----
(***************************************************************************)
(* Model of google_compute_engine/metadata_scripts/script_retriever.py:    *)
(* the ScriptRetriever that stages the startup/shutdown scripts declared   *)
(* in the instance or project metadata, its Google Storage URL             *)
(* classifier, the authenticated and plain download functions and the      *)
(* _RetryOnUnavailable decorator.                                          *)
(* A second, independent part models Utils.EnableNetworkInterfaces of      *)
(* distro_lib/sles_11/utils.py and distro_lib/sles_12/utils.py.            *)
(*                                                                         *)
(* Python values are represented as follows.  A str is a TLA+ string (Len, *)
(* SubSeq and \o work on strings in TLC).  A dict is a function from       *)
(* strings.  None is the string "None" where the Python value is a str or  *)
(* None (token, paths), and the record NoneDict where it is a dict or None *)
(* (the answers of GetMetadata, instance_data, project_data).              *)
(***************************************************************************)
EXTENDS Integers, Sequences, FiniteSets, TLC

VARIABLES
    pc,               \* position of the single thread of control
    token,            \* ScriptRetriever.token, the cached authentication token
    files,            \* the files of dest_dir, in creation order: [name, content]
    instance_data,    \* local of GetScripts
    project_data,     \* local of GetScripts
    phase,            \* which _GetAttributeScripts call of line 256-257 is active
    script_dict,      \* local of _GetAttributeScripts
    metadata_value,   \* local of _GetAttributeScripts: the URL found in the attributes
    url,              \* parameter url of _DownloadAuthUrl / _DownloadUrl
    dest,             \* local dest of _DownloadAuthUrl / _DownloadUrl
    retry,            \* the frame of Wrapper (_RetryOnUnavailable)
    downloaded_dest,  \* local of _GetAttributeScripts: what _DownloadScript returned
    instance_scripts, \* value of the first operand of the "or" of line 256
    result,           \* the value the last GetScripts call returned
    events,           \* what the current GetScripts call did to its collaborators
    distro,           \* which distro_lib Utils is in use: "sles_11" or "sles_12"
    interfaces,       \* parameter interfaces of EnableNetworkInterfaces
    interfaces_to_up, \* local of EnableNetworkInterfaces
    position,         \* index of the loop of _Dhcpcd / _WriteIfcfg
    net_pc,           \* position of the thread inside EnableNetworkInterfaces
    network_files,    \* the files of network_path: path -> content
    ops,              \* the commands run and files written so far, in order
    logged            \* the calls of logger so far, in order

netVars == <<distro, interfaces, interfaces_to_up, position, net_pc,
             network_files, ops, logged>>

retrieverVars == <<pc, token, files, instance_data, project_data, phase,
                   script_dict, metadata_value, url, dest, retry,
                   downloaded_dest, instance_scripts, result, events>>

vars == <<pc, token, files, instance_data, project_data, phase,
          script_dict, metadata_value, url, dest, retry, downloaded_dest,
          instance_scripts, result, events,
          distro, interfaces, interfaces_to_up, position, net_pc,
          network_files, ops, logged>>

-----------------------------------------------------------------------------
(* Bounds of the model. *)

\* GetScripts is called as long as dest_dir holds fewer files than this.
MaxFiles == 2

\* EnableNetworkInterfaces is given lists of at most this many interfaces.
MaxInterfaces == 3

-----------------------------------------------------------------------------
(* Python values. *)

None == "None"
NoneDict == [None |-> TRUE]
EmptyDict == [k \in {} |-> None]

\* "is None" in the place of truthiness: an empty dict counts as a value.
FalsyNone(v) == v = NoneDict

\* Python truthiness of a dict-or-None value: "x or {}", "if not response".
Falsy(d) == d = NoneDict \/ DOMAIN d = {}

\* dict.get(key, default)
Get(d, key, default) == IF key \in DOMAIN d THEN d[key] ELSE default

\* "if attribute_data.get(key):" for str values
HasValue(d, key) == key \in DOMAIN d /\ d[key] # ""

\* d[key] = value on a dict d
Put(d, key, value) == [k \in DOMAIN d \cup {key} |-> IF k = key THEN value ELSE d[k]]

Char(str, i) == SubSeq(str, i, i)

\* str.startswith(prefix)
StartsWith(str, prefix) ==
    Len(prefix) <= Len(str) /\ SubSeq(str, 1, Len(prefix)) = prefix

Whitespace == {" ", "\t", "\n", "\r"}

\* str.strip(): whitespace removed at both ends.
RECURSIVE strip(_)
strip(str) ==
    IF str # "" /\ Char(str, 1) \in Whitespace
    THEN strip(SubSeq(str, 2, Len(str)))
    ELSE IF str # "" /\ Char(str, Len(str)) \in Whitespace
    THEN strip(SubSeq(str, 1, Len(str) - 1))
    ELSE str

\* str.lstrip()
RECURSIVE lstrip(_)
lstrip(str) ==
    IF str # "" /\ Char(str, 1) \in Whitespace
    THEN lstrip(SubSeq(str, 2, Len(str)))
    ELSE str

-----------------------------------------------------------------------------
(* Regular expressions (module re), as far as _DownloadScript uses them.   *)
(* A pattern is a sequence of items; an item matches a literal string, an  *)
(* optional literal string, or one / zero or more / one or more characters *)
(* of a character class (neg: of its complement).                          *)

Lit(s)        == [op |-> "lit",  s |-> s,  cs |-> {}, neg |-> FALSE]
Opt(s)        == [op |-> "opt",  s |-> s,  cs |-> {}, neg |-> FALSE]
One(cs)       == [op |-> "one",  s |-> "", cs |-> cs, neg |-> FALSE]
Star(cs)      == [op |-> "star", s |-> "", cs |-> cs, neg |-> FALSE]
PlusNot(cs)   == [op |-> "plus", s |-> "", cs |-> cs, neg |-> TRUE]

InClass(item, c) == (c \in item.cs) # item.neg

\* The positions where a match of the literal s that starts in P ends.
LitEnds(s, str, P) ==
    {p + Len(s) : p \in {q \in P : q + Len(s) <= Len(str)
                                   /\ SubSeq(str, q + 1, q + Len(s)) = s}}

\* The positions where a run of at least least class characters that starts
\* in P ends.
RunEnds(item, str, P, least) ==
    {q \in 0..Len(str) :
        \E p \in P : /\ p + least <= q
                     /\ \A i \in (p + 1)..q : InClass(item, Char(str, i))}

\* The positions where a match of item that starts in P ends.
ItemEnds(item, str, P) ==
    CASE item.op = "lit"  -> LitEnds(item.s, str, P)
      [] item.op = "opt"  -> P \cup LitEnds(item.s, str, P)
      [] item.op = "one"  -> {p + 1 : p \in {q \in P : q < Len(str)
                                             /\ InClass(item, Char(str, q + 1))}}
      [] item.op = "star" -> RunEnds(item, str, P, 0)
      [] item.op = "plus" -> RunEnds(item, str, P, 1)

RECURSIVE PatternEnds(_, _, _)
PatternEnds(pattern, str, P) ==
    IF pattern = <<>> THEN P
    ELSE PatternEnds(Tail(pattern), str, ItemEnds(Head(pattern), str, P))

\* re.compile(r'\A...\Z').match(str): the whole string matches the pattern.
Match(pattern, str) == Len(str) \in PatternEnds(pattern, str, {0})

\* re.sub(prefix, repl, str) without the ^: every occurrence is replaced.
RECURSIVE SubEverywhere(_, _, _)
SubEverywhere(prefix, repl, str) ==
    IF str = "" THEN ""
    ELSE IF StartsWith(str, prefix)
    THEN repl \o SubEverywhere(prefix, repl, SubSeq(str, Len(prefix) + 1, Len(str)))
    ELSE Char(str, 1) \o SubEverywhere(prefix, repl, SubSeq(str, 2, Len(str)))

\* re.sub('^' + prefix, repl, str): ^ matches at the start of the string only
\* and the search goes on after the match, where ^ no longer matches.
SubPrefix(prefix, repl, str) ==
    IF StartsWith(str, prefix)
    THEN repl \o SubSeq(str, Len(prefix) + 1, Len(str))
    ELSE str

Lower == {"a", "b", "c", "d", "e", "f", "g", "h", "i", "j", "k", "l", "m",
          "n", "o", "p", "q", "r", "s", "t", "u", "v", "w", "x", "y", "z"}
Digit == {"0", "1", "2", "3", "4", "5", "6", "7", "8", "9"}

\* r'http[s]?://'
header == <<Lit("http"), Opt("s"), Lit("://")>>
\* r'storage.googleapis.com', the dots not escaped: each matches any character.
domain_dots ==
    <<Lit("storage"), [op |-> "one", s |-> "", cs |-> {}, neg |-> TRUE],
      Lit("googleapis"), [op |-> "one", s |-> "", cs |-> {}, neg |-> TRUE],
      Lit("com")>>

\* r'storage\.googleapis\.com'
domain == <<Lit("storage.googleapis.com")>>
\* r'(?P<bucket>[a-z0-9][-_.a-z0-9]*[a-z0-9])'
bucket == <<One(Lower \cup Digit),
            Star({"-", "_", "."} \cup Lower \cup Digit),
            One(Lower \cup Digit)>>
\* r'(?P<obj>[^\*\?]+)'
obj == <<PlusNot({"*", "?"})>>

\* r'\A%s%s\.%s/%s\Z' % (header, bucket, domain, obj)
gs_regex_host == header \o bucket \o <<Lit(".")>> \o domain \o <<Lit("/")>> \o obj
\* The path-style pattern without the deprecated commondatastorage alias.
gs_regex_path_no_alias ==
    header \o domain \o <<Lit("/")>> \o bucket \o <<Lit("/")>> \o obj

\* r'\A%s(commondata)?%s/%s/%s\Z' % (header, domain, bucket, obj)
gs_regex_path ==
    header \o <<Opt("commondata")>> \o domain \o <<Lit("/")>> \o bucket
           \o <<Lit("/")>> \o obj

\* _DownloadScript: the download function it calls and the URL it hands over.
Route(u) ==
    IF StartsWith(u, "gs://")
    THEN [fn |-> "_DownloadAuthUrl",
          url |-> SubPrefix("gs://", "https://storage.googleapis.com/", u)]
    ELSE IF Match(gs_regex_host, u) THEN [fn |-> "_DownloadAuthUrl", url |-> u]
    ELSE IF Match(gs_regex_path, u) THEN [fn |-> "_DownloadAuthUrl", url |-> u]
    ELSE [fn |-> "_DownloadUrl", url |-> u]

-----------------------------------------------------------------------------
(* The retriever's parameters and the inputs its collaborators supply.     *)

\* ScriptRetriever.script_type, given to the constructor.
script_type == "startup"
\* '%s-script' % self.script_type and '%s-script-url' % self.script_type
script_key == script_type \o "-script"
script_url_key == script_type \o "-script-url"

\* ScriptRetriever.token_metadata_key
token_metadata_key == "instance/service-accounts/default/token"

Absent == "<absent>"

\* The attributes dict that holds the inline value inl and the URL value u
\* (Absent: no such key), next to the keys of the dict other.
Attributes(inl, u, other) ==
    [k \in DOMAIN other \cup (IF inl = Absent THEN {} ELSE {script_key})
                       \cup (IF u = Absent THEN {} ELSE {script_url_key}) |->
        IF k = script_key /\ inl # Absent THEN inl
        ELSE IF k = script_url_key /\ u # Absent THEN u
        ELSE other[k]]

GsUrl == "gs://bucket/object"
PlainUrl == "https://example.com/script.sh"

InstanceAttributes ==
    {Attributes(inl, u, EmptyDict) :
        inl \in {Absent, "", "  echo hi"}, u \in {Absent, "", GsUrl, PlainUrl}}
    \cup {Attributes(Absent, Absent, [k \in {"shutdown-script"} |-> "halt"])}

ProjectAttributes ==
    {Attributes(" echo p", Absent, EmptyDict),
     Attributes(" echo p", GsUrl, EmptyDict),
     Attributes(Absent, PlainUrl, [k \in {"shutdown-script"} |-> "halt"])}

\* What MetadataWatcher.GetMetadata() answers: None, or a tree whose keys
\* instance and project, when present, hold a dict with or without attributes.
AbsentDict == [absent |-> TRUE]

Branches(attrs) ==
    {AbsentDict, EmptyDict} \cup {[k \in {"attributes"} |-> a] : a \in attrs}

Tree(i, p) ==
    [k \in (IF i = AbsentDict THEN {} ELSE {"instance"})
           \cup (IF p = AbsentDict THEN {} ELSE {"project"}) |->
        IF k = "instance" THEN i ELSE p]

MetadataTrees ==
    {NoneDict} \cup {Tree(i, p) : i \in Branches(InstanceAttributes),
                                 p \in Branches(ProjectAttributes)}

\* What GetMetadata(token_metadata_key) answers: None, an empty answer, or a
\* dict with or without the fields token_type and access_token.
TokenResponses ==
    {NoneDict, EmptyDict,
     [token_type |-> "Bearer", access_token |-> "ya29"],
     [token_type |-> "Bearer", expires_in |-> "3599"]}

\* The exceptions the retry decorator catches (line 40), and one it does not.
Retryable == {"HTTPException", "socket.error", "URLError"}
OtherExceptions == {"ValueError"}

\* The content a successful fetch delivers.
Bodies == {"#!/bin/sh"}

\* What one call of urlopen / urlretrieve does: it answers or it raises.
Outcomes ==
    {[kind |-> "ok", body |-> b] : b \in Bodies}
    \cup {[kind |-> k, body |-> ""] : k \in Retryable \cup OtherExceptions}

-----------------------------------------------------------------------------
(* Files of dest_dir. *)

\* A fixed file name in the place of a fresh one.
NewNameFixed(fs) == "tmp1"

\* tempfile.NamedTemporaryFile(dir=dest_dir, delete=False): a name no file of
\* the directory has.
NewName(fs) == "tmp" \o ToString(Len(fs) + 1)

\* The directory after a new file with this content was created.
Create(fs, content) == Append(fs, [name |-> NewName(fs), content |-> content])

\* open(name, 'w').write(content), and urlretrieve's write to name.
Write(fs, name, content) ==
    [i \in 1..Len(fs) |->
        IF fs[i].name = name THEN [fs[i] EXCEPT !.content = content] ELSE fs[i]]

-----------------------------------------------------------------------------
(* _RetryOnUnavailable. *)

\* One iteration more: range(4).
RetryAttemptsFour == 3 + 1

\* range(3), line 37
RetryAttempts == 3
\* time.sleep(5), line 42
SleepSeconds == 5

NoException == [kind |-> "None", attempt |-> 0]

\* The frame of Wrapper as it is entered: final_exception = None.
NewRetry ==
    [n |-> 0, final_exception |-> NoException, status |-> "running",
     response |-> "", raised |-> NoException, slept |-> 0]

\* Wrapper without "return response": a successful attempt does not leave the
\* loop before the last iteration.
WrapperKeepsOn(fr, outcome) ==
    LET n == fr.n + 1
        e == [kind |-> outcome.kind, attempt |-> n]
    IN  IF outcome.kind = "ok"
        THEN [fr EXCEPT !.n = n, !.response = outcome.body,
                        !.status = IF n = 3 THEN "returned" ELSE "running"]
        ELSE IF outcome.kind \in {"HTTPException", "socket.error", "URLError"}
        THEN [fr EXCEPT !.n = n, !.final_exception = e, !.slept = @ + 5,
                        !.status = IF n = 3 THEN "raised" ELSE "running",
                        !.raised = IF n = 3 THEN e ELSE @]
        ELSE [fr EXCEPT !.n = n, !.status = "raised", !.raised = e]

\* Wrapper keeping the first fault: final_exception is set only while it is
\* None.
WrapperFirstFault(fr, outcome) ==
    LET n == fr.n + 1
        e == [kind |-> outcome.kind, attempt |-> n]
        kept == IF fr.final_exception.kind = "None" THEN e ELSE fr.final_exception
    IN  IF outcome.kind = "ok"
        THEN [fr EXCEPT !.n = n, !.status = "returned", !.response = outcome.body]
        ELSE IF outcome.kind \in {"HTTPException", "socket.error", "URLError"}
        THEN [fr EXCEPT !.n = n, !.final_exception = kept, !.slept = @ + 5,
                        !.status = IF n = 3 THEN "raised" ELSE "running",
                        !.raised = IF n = 3 THEN kept ELSE @]
        ELSE [fr EXCEPT !.n = n, !.status = "raised", !.raised = e]

\* Wrapper with "except Exception": every exception is retried.
WrapperCatchesAll(fr, outcome) ==
    LET n == fr.n + 1
        e == [kind |-> outcome.kind, attempt |-> n]
    IN  IF outcome.kind = "ok"
        THEN [fr EXCEPT !.n = n, !.status = "returned", !.response = outcome.body]
        ELSE [fr EXCEPT !.n = n, !.final_exception = e, !.slept = @ + 5,
                        !.status = IF n = 3 THEN "raised" ELSE "running",
                        !.raised = IF n = 3 THEN e ELSE @]

\* One iteration of the loop of Wrapper, func having ended with outcome; after
\* the last iteration, "raise final_exception".
Wrapper(fr, outcome) ==
    LET n == fr.n + 1
        e == [kind |-> outcome.kind, attempt |-> n]
    IN  IF outcome.kind = "ok"
        THEN [fr EXCEPT !.n = n, !.status = "returned", !.response = outcome.body]
        ELSE IF outcome.kind \in Retryable
        THEN [fr EXCEPT !.n = n, !.final_exception = e,
                        !.slept = @ + SleepSeconds,
                        !.status = IF n = RetryAttempts THEN "raised" ELSE "running",
                        !.raised = IF n = RetryAttempts THEN e ELSE @]
        ELSE [fr EXCEPT !.n = n, !.status = "raised", !.raised = e]

\* The events of one iteration: the call of func, and the sleep after a
\* retryable fault.
AttemptEvents(fn, u, headers, outcome) ==
    <<[ev |-> "fetch", fn |-> fn, url |-> u, headers |-> headers,
       outcome |-> outcome, phase |-> phase]>>
    \o (IF outcome.kind \in Retryable
        THEN <<[ev |-> "sleep", secs |-> SleepSeconds]>> ELSE <<>>)

-----------------------------------------------------------------------------
(* The retriever. *)

\* No call of EnableNetworkInterfaces is under way: the retriever does not
\* touch the network setup.
NetIdle ==
    /\ distro = "none"
    /\ interfaces = <<>>
    /\ interfaces_to_up = <<>>
    /\ position = 0
    /\ net_pc = "idle"
    /\ network_files = <<>>
    /\ ops = <<>>
    /\ logged = <<>>

Init ==
    /\ NetIdle
    /\ pc = "idle"
    /\ token = None
    /\ files = <<>>
    /\ instance_data = NoneDict
    /\ project_data = NoneDict
    /\ phase = "none"
    /\ script_dict = EmptyDict
    /\ metadata_value = ""
    /\ url = ""
    /\ dest = None
    /\ retry = NewRetry
    /\ downloaded_dest = None
    /\ instance_scripts = EmptyDict
    /\ result = NoneDict
    /\ events = <<>>

\* Both lookups inside one try block: a KeyError of the first leaves the
\* second unmade.
AttributesOfOneTry(metadata_dict, branch) ==
    IF /\ "instance" \in DOMAIN metadata_dict
       /\ "attributes" \in DOMAIN metadata_dict["instance"]
       /\ branch \in DOMAIN metadata_dict
       /\ "attributes" \in DOMAIN metadata_dict[branch]
    THEN metadata_dict[branch]["attributes"]
    ELSE NoneDict

\* metadata_dict[branch]['attributes'], None on a KeyError.
AttributesOf(metadata_dict, branch) ==
    IF branch \in DOMAIN metadata_dict /\ "attributes" \in DOMAIN metadata_dict[branch]
    THEN metadata_dict[branch]["attributes"]
    ELSE NoneDict

\* GetScripts, lines 242-254, up to the first call of _GetAttributeScripts.
GetScripts ==
    /\ UNCHANGED netVars
    /\ pc = "idle"
    /\ Len(files) < MaxFiles
    /\ \E response \in MetadataTrees :
         LET metadata_dict == IF Falsy(response) THEN EmptyDict ELSE response
         IN  /\ instance_data' = AttributesOf(metadata_dict, "instance")
             /\ project_data' = AttributesOf(metadata_dict, "project")
             /\ events' = <<[ev |-> "GetMetadata", key |-> "", answer |-> response]>>
    /\ phase' = "instance"
    /\ pc' = "_GetAttributeScripts"
    /\ UNCHANGED <<token, files, script_dict, metadata_value, url, dest, retry,
                   downloaded_dest, instance_scripts, result>>

\* Both calls of _GetAttributeScripts given instance_data.
AttributeDataInstance(ph) == instance_data

\* The argument of the call of _GetAttributeScripts of line 256 (instance) and
\* of line 257 (project).
AttributeData(ph) == IF ph = "instance" THEN instance_data ELSE project_data

\* _GetAttributeScripts, lines 211-225: the inline script is staged, and the
\* URL, if there is one, is handed to _DownloadScript.
GetAttributeScripts ==
    /\ UNCHANGED netVars
    /\ pc = "_GetAttributeScripts"
    /\ LET data == AttributeData(phase)
           attribute_data == IF Falsy(data) THEN EmptyDict ELSE data
           inline == HasValue(attribute_data, script_key)
       IN  /\ files' = IF inline
                       THEN Create(files, lstrip(attribute_data[script_key]))
                       ELSE files
           /\ script_dict' = IF inline
                             THEN Put(EmptyDict, script_key, NewName(files))
                             ELSE EmptyDict
           /\ events' = IF inline
                        THEN Append(events, [ev |-> "tempfile", name |-> NewName(files),
                                             phase |-> phase])
                        ELSE events
           /\ IF HasValue(attribute_data, script_url_key)
              THEN /\ metadata_value' = attribute_data[script_url_key]
                   /\ pc' = "_DownloadScript"
              ELSE /\ metadata_value' = ""
                   /\ pc' = "or"
    /\ UNCHANGED <<token, instance_data, project_data, phase, url, dest,
                   retry, downloaded_dest, instance_scripts, result>>

\* _DownloadScript, lines 161-199.
DownloadScript ==
    /\ UNCHANGED netVars
    /\ pc = "_DownloadScript"
    /\ url' = Route(metadata_value).url
    /\ pc' = Route(metadata_value).fn
    /\ events' = Append(events, [ev |-> "_DownloadScript", url |-> metadata_value])
    /\ UNCHANGED <<token, files, instance_data, project_data, phase,
                   script_dict, metadata_value, dest, retry, downloaded_dest,
                   instance_scripts, result>>

\* '%s %s' % (response.get('token_type', ''), response.get('access_token', ''))
TokenOf(response) ==
    Get(response, "token_type", "") \o " " \o Get(response, "access_token", "")

\* The token queried at every call of _DownloadAuthUrl.
NoTokenAlways(t) == TRUE

\* "if not self.token"
NoToken(t) == t = None \/ t = ""

\* _DownloadAuthUrl, lines 91-109: the temp file is reserved and, when no
\* token is cached, the token is asked for; without one the URL goes to
\* _DownloadUrl.
DownloadAuthUrl ==
    /\ UNCHANGED netVars
    /\ pc = "_DownloadAuthUrl"
    /\ files' = Create(files, "")
    /\ dest' = NewName(files)
    /\ retry' = NewRetry
    /\ LET reserved == [ev |-> "tempfile", name |-> NewName(files), phase |-> phase]
       IN  IF NoToken(token)
           THEN \E response \in TokenResponses :
                  /\ events' = events \o <<reserved,
                                   [ev |-> "GetMetadata", key |-> token_metadata_key,
                                    answer |-> response]>>
                  /\ IF Falsy(response)
                     THEN /\ token' = token
                          /\ pc' = "_DownloadUrl"
                     ELSE /\ token' = TokenOf(response)
                          /\ pc' = "_UrlOpenWithRetry"
           ELSE /\ events' = Append(events, reserved)
                /\ token' = token
                /\ pc' = "_UrlOpenWithRetry"
    /\ UNCHANGED <<instance_data, project_data, phase, script_dict,
                   metadata_value, url, downloaded_dest, instance_scripts, result>>

\* The headers of the request of lines 112-114.
AuthHeaders(t) ==
    [k \in {"Metadata-Flavor", "Authorization"} |->
        IF k = "Authorization" THEN t ELSE "Google"]

\* The plain download building its request as the authenticated one does,
\* once a token is cached.
PlainHeadersToken(t) ==
    IF t = None \/ t = "" THEN EmptyDict
    ELSE [k \in {"Metadata-Flavor", "Authorization"} |->
            IF k = "Authorization" THEN t ELSE "Google"]

\* urlretrieve(url, dest) sends no header of the retriever's.
PlainHeaders(t) == EmptyDict

\* One attempt of _UrlOpenWithRetry(request), line 115.
UrlOpenWithRetry ==
    /\ UNCHANGED netVars
    /\ pc = "_UrlOpenWithRetry"
    /\ retry.status = "running"
    /\ \E outcome \in Outcomes :
         /\ retry' = Wrapper(retry, outcome)
         /\ events' = events \o AttemptEvents("urlopen", url, AuthHeaders(token), outcome)
    /\ UNCHANGED <<pc, token, files, instance_data, project_data, phase,
                   script_dict, metadata_value, url, dest, downloaded_dest,
                   instance_scripts, result>>

\* "except Exception" of line 116: the kinds of exception _DownloadAuthUrl
\* catches.
AuthCaught == Retryable \cup OtherExceptions \cup {"UnicodeDecodeError"}

\* _DownloadAuthUrl, lines 115-123, once _UrlOpenWithRetry has returned or
\* raised: read() and decode() may raise as well; an exception that is caught
\* gives None, one that is not leaves GetScripts.
DownloadAuthUrlReturn ==
    /\ UNCHANGED netVars
    /\ pc = "_UrlOpenWithRetry"
    /\ retry.status # "running"
    /\ \E decoded \in BOOLEAN :
         LET e == IF retry.status = "raised" THEN retry.raised.kind
                  ELSE "UnicodeDecodeError"
         IN  IF retry.status = "returned" /\ decoded
             THEN /\ files' = Write(files, dest, retry.response)
                  /\ downloaded_dest' = dest
                  /\ pc' = "downloaded"
             ELSE /\ retry.status = "returned" \/ decoded
                  /\ files' = files
                  /\ downloaded_dest' = None
                  /\ pc' = IF e \in AuthCaught THEN "downloaded" ELSE "raise"
    /\ UNCHANGED <<token, instance_data, project_data, phase, script_dict,
                   metadata_value, url, dest, retry, instance_scripts, result, events>>

\* _DownloadUrl taking over the file its caller _DownloadAuthUrl has reserved
\* in the place of reserving its own.
DownloadUrlReusesDest ==
    /\ UNCHANGED netVars
    /\ pc = "_DownloadUrl"
    /\ files' = IF dest = None THEN Create(files, "") ELSE files
    /\ dest' = IF dest = None THEN NewName(files) ELSE dest
    /\ retry' = NewRetry
    /\ events' = IF dest = None
                 THEN Append(events, [ev |-> "tempfile", name |-> NewName(files),
                                      phase |-> phase])
                 ELSE events
    /\ pc' = "_UrlRetrieveWithRetry"
    /\ UNCHANGED <<token, instance_data, project_data, phase, script_dict,
                   metadata_value, url, downloaded_dest, instance_scripts, result>>

\* _DownloadUrl, lines 135-139: the temp file is reserved.
DownloadUrl ==
    /\ UNCHANGED netVars
    /\ pc = "_DownloadUrl"
    /\ files' = Create(files, "")
    /\ dest' = NewName(files)
    /\ retry' = NewRetry
    /\ events' = Append(events, [ev |-> "tempfile", name |-> NewName(files),
                                 phase |-> phase])
    /\ pc' = "_UrlRetrieveWithRetry"
    /\ UNCHANGED <<token, instance_data, project_data, phase, script_dict,
                   metadata_value, url, downloaded_dest, instance_scripts, result>>

\* One attempt of _UrlRetrieveWithRetry(url, dest), line 141: urlretrieve
\* writes what it fetched to dest.
UrlRetrieveWithRetry ==
    /\ UNCHANGED netVars
    /\ pc = "_UrlRetrieveWithRetry"
    /\ retry.status = "running"
    /\ \E outcome \in Outcomes :
         /\ retry' = Wrapper(retry, outcome)
         /\ events' = events \o AttemptEvents("urlretrieve", url, PlainHeaders(token),
                                              outcome)
         /\ files' = IF outcome.kind = "ok" THEN Write(files, dest, outcome.body)
                     ELSE files
    /\ UNCHANGED <<pc, token, instance_data, project_data, phase,
                   script_dict, metadata_value, url, dest, downloaded_dest,
                   instance_scripts, result>>

\* _DownloadUrl with the first except clause only.
PlainCaughtRetryable == Retryable

\* The two except clauses of lines 143-146: the kinds of exception
\* _DownloadUrl catches.
PlainCaught == Retryable \cup OtherExceptions

\* _DownloadUrl, lines 142-147, once _UrlRetrieveWithRetry has returned or
\* raised: an exception that is caught gives None, one that is not leaves
\* GetScripts.
DownloadUrlReturn ==
    /\ UNCHANGED netVars
    /\ pc = "_UrlRetrieveWithRetry"
    /\ retry.status # "running"
    /\ downloaded_dest' = IF retry.status = "returned" THEN dest ELSE None
    /\ pc' = IF retry.status = "returned" \/ retry.raised.kind \in PlainCaught
             THEN "downloaded" ELSE "raise"
    /\ UNCHANGED <<token, files, instance_data, project_data, phase,
                   script_dict, metadata_value, url, dest, retry, instance_scripts,
                   result, events>>

\* The key recorded only when the download gave a path.
RecordedOnSuccess(d, key, path) == IF path = None THEN d ELSE Put(d, key, path)

\* script_dict[metadata_key] = downloaded_dest, line 229.
Recorded(d, key, path) == Put(d, key, path)

\* _GetAttributeScripts, lines 227-231: the URL key is recorded.
RecordDownload ==
    /\ UNCHANGED netVars
    /\ pc = "downloaded"
    /\ script_dict' = Recorded(script_dict, script_url_key, downloaded_dest)
    /\ pc' = "or"
    /\ UNCHANGED <<token, files, instance_data, project_data, phase,
                   metadata_value, url, dest, retry, downloaded_dest,
                   instance_scripts, result, events>>

\* An "or" that passes over a mapping whose values are all None.
ShortCircuitNonNull(a) == \E k \in DOMAIN a : a[k] # None

\* No short circuit: the project attributes are always processed and their
\* mapping returned.
ShortCircuitNever(a) == FALSE

\* "a or b" gives a, and does not evaluate b, when the dict a is not empty.
ShortCircuit(a) == DOMAIN a # {}

\* GetScripts, lines 256-257: a or b, a and b the two calls of
\* _GetAttributeScripts; script_dict is what the call just made returned.
GetScriptsOr ==
    /\ UNCHANGED netVars
    /\ pc = "or"
    /\ IF phase = "instance"
       THEN /\ instance_scripts' = script_dict
            /\ IF ShortCircuit(script_dict)
               THEN /\ result' = script_dict
                    /\ phase' = phase
                    /\ pc' = "return"
               ELSE /\ result' = result
                    /\ phase' = "project"
                    /\ pc' = "_GetAttributeScripts"
       ELSE /\ instance_scripts' = instance_scripts
            /\ result' = script_dict
            /\ phase' = phase
            /\ pc' = "return"
    /\ UNCHANGED <<token, files, instance_data, project_data, script_dict,
                   metadata_value, url, dest, retry, downloaded_dest, events>>

\* GetScripts has returned: its frame and those of its callees are gone, the
\* token and the files stay.
Return ==
    /\ UNCHANGED netVars
    /\ pc = "return"
    /\ pc' = "idle"
    /\ instance_data' = NoneDict
    /\ project_data' = NoneDict
    /\ phase' = "none"
    /\ script_dict' = EmptyDict
    /\ metadata_value' = ""
    /\ url' = ""
    /\ dest' = None
    /\ retry' = NewRetry
    /\ downloaded_dest' = None
    /\ instance_scripts' = EmptyDict
    /\ result' = NoneDict
    /\ events' = <<>>
    /\ UNCHANGED <<token, files>>

Next ==
    \/ GetScripts
    \/ GetAttributeScripts
    \/ DownloadScript
    \/ DownloadAuthUrl
    \/ UrlOpenWithRetry
    \/ DownloadAuthUrlReturn
    \/ DownloadUrl
    \/ UrlRetrieveWithRetry
    \/ DownloadUrlReturn
    \/ RecordDownload
    \/ GetScriptsOr
    \/ Return

Spec == Init /\ [][Next]_vars

\* dest_dir with n files of earlier calls.
RECURSIVE Filled(_)
Filled(n) == IF n = 0 THEN <<>> ELSE Create(Filled(n - 1), "echo old")

\* The retriever between two calls, earlier calls having left files and
\* possibly a cached token: what a call does depends on nothing else.
InitFair ==
    /\ NetIdle
    /\ pc = "idle"
    /\ token \in {None, "Bearer ya29"}
    /\ files = Filled(MaxFiles - 1)
    /\ instance_data = NoneDict
    /\ project_data = NoneDict
    /\ phase = "none"
    /\ script_dict = EmptyDict
    /\ metadata_value = ""
    /\ url = ""
    /\ dest = None
    /\ retry = NewRetry
    /\ downloaded_dest = None
    /\ instance_scripts = EmptyDict
    /\ result = NoneDict
    /\ events = <<>>

\* The retriever runs in one thread that goes on as long as it has a step to
\* take: every metadata query and every network operation returns or raises.
FairSpec == InitFair /\ [][Next]_vars /\ WF_vars(Next)

-----------------------------------------------------------------------------
(* The URL classifier on its own: the retriever has found the URL u under   *)
(* the instance attributes (no inline script) and is about to call          *)
(* _DownloadScript; u ranges over the URLs below.                           *)

Schemes == {"http://", "https://", "HTTP://", "ftp://", "xhttp://", "https:/"}
Domains == {"storage.googleapis.com", "Storage.googleapis.com",
            "storageXgoogleapis.com", "storage.googleapis.com.x.io"}
Aliases == {"", "commondata", "commondata.", "common"}
BucketNames == {"b", "bk", "b-k", "b.k", "b_k9", "-bk", "bk-", "Bk", ".bk", ""}
ObjectNames == {"o", "", "dir/o.sh", "o*", "?o", "o\n"}

HostUrls ==
    {s \o b \o "." \o d \o "/" \o o :
        s \in Schemes, b \in BucketNames, d \in Domains, o \in ObjectNames}
PathUrls ==
    {s \o a \o d \o "/" \o b \o "/" \o o :
        s \in Schemes, a \in Aliases, d \in Domains, b \in BucketNames,
        o \in ObjectNames}
GsUrls ==
    {"gs://" \o b \o "/" \o o : b \in BucketNames, o \in ObjectNames}
    \cup {"gs://", "gs:/bk/o", "GS://bk/o", " gs://bk/o", "gs://bk/gs://o",
          "gs://bk.storage.googleapis.com/o*", GsUrl}
OtherUrls ==
    {PlainUrl, "", "https://storage.googleapis.com/bk",
     "https://bk.storage.googleapis.com", "http://b.storage.googleapis.com/o",
     "https://storage.googleapis.com/b/o",
     "https://commondatastorage.googleapis.com/b/o",
     "https://storage.googleapis.com/bk.storage.googleapis.com/o",
     "https://example.com/https://storage.googleapis.com/bk/o"}

Urls == HostUrls \cup PathUrls \cup GsUrls \cup (OtherUrls \ {""})

InitUrl ==
    /\ NetIdle
    /\ pc = "_DownloadScript"
    /\ token = None
    /\ files = <<>>
    /\ metadata_value \in Urls
    /\ instance_data = Attributes(Absent, metadata_value, EmptyDict)
    /\ project_data = NoneDict
    /\ phase = "instance"
    /\ script_dict = EmptyDict
    /\ url = ""
    /\ dest = None
    /\ retry = NewRetry
    /\ downloaded_dest = None
    /\ instance_scripts = EmptyDict
    /\ result = NoneDict
    /\ events = <<[ev |-> "GetMetadata", key |-> "",
                   answer |-> Tree([k \in {"attributes"} |-> instance_data],
                                   AbsentDict)]>>

NextUrl == DownloadScript

SpecUrl == InitUrl /\ [][NextUrl]_vars

-----------------------------------------------------------------------------
(* The staging of an inline script on its own: GetScripts has found the     *)
(* value v under the instance attributes (no URL) and is about to call      *)
(* _GetAttributeScripts; v ranges over the values below, and dest_dir is    *)
(* empty or holds a file of an earlier call.                                *)

Leads == {"", " ", "  ", "\t", "\n ", " \r\n"}
Cores == {"", "x", "echo hi", "#!/bin/sh\necho  1"}
Trails == {"", " ", "\n", " \t "}

InlineValues == {l \o c \o t : l \in Leads, c \in Cores, t \in Trails} \ {""}

InitInline ==
    /\ NetIdle
    /\ pc = "_GetAttributeScripts"
    /\ token = None
    /\ files \in {<<>>, Create(<<>>, "echo old")}
    /\ \E v \in InlineValues : instance_data = Attributes(v, Absent, EmptyDict)
    /\ project_data = NoneDict
    /\ phase = "instance"
    /\ script_dict = EmptyDict
    /\ metadata_value = ""
    /\ url = ""
    /\ dest = None
    /\ retry = NewRetry
    /\ downloaded_dest = None
    /\ instance_scripts = EmptyDict
    /\ result = NoneDict
    /\ events = <<[ev |-> "GetMetadata", key |-> "",
                   answer |-> Tree([k \in {"attributes"} |-> instance_data],
                                   AbsentDict)]>>

NextInline == GetAttributeScripts

SpecInline == InitInline /\ [][NextInline]_vars

-----------------------------------------------------------------------------
(* distro_lib/sles_11/utils.py and distro_lib/sles_12/utils.py:             *)
(* Utils.EnableNetworkInterfaces, called once with a list of interfaces.    *)
(* A command run by subprocess.check_call ends well or raises               *)
(* CalledProcessError.                                                      *)

InterfaceNames == {"eth0", "eth1", "eth2"}

InterfaceLists == UNION {[1..n -> InterfaceNames] : n \in 0..MaxInterfaces}

CommandOutcomes == {"ok", "CalledProcessError"}

\* The list comprehension without its condition.
Unfiltered(l) == l

\* [i for i in interfaces if i != 'eth0']
RECURSIVE WithoutEth0(_)
WithoutEth0(l) ==
    IF l = <<>> THEN <<>>
    ELSE IF Head(l) # "eth0" THEN <<Head(l)>> \o WithoutEth0(Tail(l))
    ELSE WithoutEth0(Tail(l))

\* constants.LOCALBASE + '/etc/sysconfig/network'; LOCALBASE is kept as a
\* symbol.
network_path == "$LOCALBASE" \o "/etc/sysconfig/network"

\* os.path.join(network_path, 'ifcfg-%s' % interface)
interface_config(interface) == network_path \o "/" \o "ifcfg-" \o interface

\* '\n'.join(lines)
RECURSIVE join(_, _)
join(sep, lines) ==
    IF lines = <<>> THEN ""
    ELSE IF Len(lines) = 1 THEN lines[1]
    ELSE lines[1] \o sep \o join(sep, Tail(lines))

interface_content(interface) ==
    <<"# Added by Google.",
      "STARTMODE=hotplug",
      "BOOTPROTO=dhcp",
      "DHCLIENT_SET_DEFAULT_ROUTE=yes",
      "DHCLIENT_ROUTE_PRIORITY=10" \o interface \o "00",
      "">>

dhcpcd == <<"/sbin/dhcpcd">>

ifup == <<"/usr/sbin/wicked", "ifup", "--timeout", "1">>

\* The files of network_path before the call: the image's file of eth0, and
\* possibly a file of eth1 an earlier call has written.
NetworkFilesBefore ==
    {[f \in {interface_config("eth0")} |-> "STARTMODE=auto"],
     [f \in {interface_config("eth0"), interface_config("eth1")} |->
        IF f = interface_config("eth0") THEN "STARTMODE=auto"
        ELSE join("\n", interface_content("eth1"))]}

InitNet ==
    /\ pc = "idle"
    /\ token = None
    /\ files = <<>>
    /\ instance_data = NoneDict
    /\ project_data = NoneDict
    /\ phase = "none"
    /\ script_dict = EmptyDict
    /\ metadata_value = ""
    /\ url = ""
    /\ dest = None
    /\ retry = NewRetry
    /\ downloaded_dest = None
    /\ instance_scripts = EmptyDict
    /\ result = NoneDict
    /\ events = <<>>
    /\ distro \in {"sles_11", "sles_12"}
    /\ interfaces \in InterfaceLists
    /\ interfaces_to_up = <<>>
    /\ position = 0
    /\ net_pc = "EnableNetworkInterfaces"
    /\ network_files \in NetworkFilesBefore
    /\ ops = <<>>
    /\ logged = <<>>

\* EnableNetworkInterfaces of both modules: sles_11 lines 48-51, sles_12
\* lines 50-54, up to the call of _Dhcpcd or _WriteIfcfg.
EnableNetworkInterfaces ==
    /\ net_pc = "EnableNetworkInterfaces"
    /\ interfaces_to_up' = WithoutEth0(interfaces)
    /\ IF WithoutEth0(interfaces) # <<>>
       THEN /\ logged' = Append(logged,
                    [level |-> "info", msg |-> "Enabling the Ethernet interfaces %s.",
                     arg |-> WithoutEth0(interfaces)])
            /\ position' = 1
            /\ net_pc' = IF distro = "sles_11" THEN "_Dhcpcd -x" ELSE "_WriteIfcfg"
       ELSE /\ logged' = logged
            /\ position' = position
            /\ net_pc' = "done"
    /\ UNCHANGED <<distro, interfaces, network_files, ops>>
    /\ UNCHANGED retrieverVars

\* sles_11 _Dhcpcd, lines 60-66: dhcpcd -x for the interface of this
\* iteration.
DhcpcdRelease ==
    /\ net_pc = "_Dhcpcd -x"
    /\ \E outcome \in CommandOutcomes :
         /\ ops' = Append(ops, [op |-> "check_call",
                                argv |-> dhcpcd \o <<"-x", interfaces_to_up[position]>>,
                                outcome |-> outcome])
         /\ logged' = IF outcome = "CalledProcessError"
                       THEN Append(logged,
                              [level |-> "info",
                               msg |-> "Dhcpcd not yet running for interface %s.",
                               arg |-> <<interfaces_to_up[position]>>])
                       ELSE logged
    /\ net_pc' = "_Dhcpcd"
    /\ UNCHANGED <<distro, interfaces, interfaces_to_up, position, network_files>>
    /\ UNCHANGED retrieverVars

\* sles_11 _Dhcpcd, lines 67-71: dhcpcd for the interface of this iteration,
\* then the next iteration.
DhcpcdStart ==
    /\ net_pc = "_Dhcpcd"
    /\ \E outcome \in CommandOutcomes :
         /\ ops' = Append(ops, [op |-> "check_call",
                                argv |-> dhcpcd \o <<interfaces_to_up[position]>>,
                                outcome |-> outcome])
         /\ logged' = IF outcome = "CalledProcessError"
                       THEN Append(logged,
                              [level |-> "warning",
                               msg |-> "Could not activate interface %s.",
                               arg |-> <<interfaces_to_up[position]>>])
                       ELSE logged
    /\ position' = position + 1
    /\ net_pc' = IF position = Len(interfaces_to_up) THEN "done" ELSE "_Dhcpcd -x"
    /\ UNCHANGED <<distro, interfaces, interfaces_to_up, network_files>>
    /\ UNCHANGED retrieverVars

\* sles_12 _WriteIfcfg, lines 67-80: one iteration; after the last one
\* EnableNetworkInterfaces calls _Ifup.
WriteIfcfg ==
    /\ net_pc = "_WriteIfcfg"
    /\ LET interface == interfaces_to_up[position]
           content == join("\n", interface_content(interface))
       IN  /\ network_files' = Put(network_files, interface_config(interface), content)
           /\ ops' = Append(ops, [op |-> "write",
                                  path |-> interface_config(interface),
                                  content |-> content])
           /\ logged' = Append(logged,
                           [level |-> "info",
                            msg |-> "Created ifcfg file for interface %s.",
                            arg |-> <<interface>>])
    /\ position' = position + 1
    /\ net_pc' = IF position = Len(interfaces_to_up) THEN "_Ifup" ELSE "_WriteIfcfg"
    /\ UNCHANGED <<distro, interfaces, interfaces_to_up>>
    /\ UNCHANGED retrieverVars

\* sles_12 _Ifup, lines 89-93.
Ifup ==
    /\ net_pc = "_Ifup"
    /\ \E outcome \in CommandOutcomes :
         /\ ops' = Append(ops, [op |-> "check_call",
                                argv |-> ifup \o interfaces_to_up,
                                outcome |-> outcome])
         /\ logged' = IF outcome = "CalledProcessError"
                       THEN Append(logged,
                              [level |-> "warning",
                               msg |-> "Could not activate interfaces %s.",
                               arg |-> interfaces_to_up])
                       ELSE logged
    /\ net_pc' = "done"
    /\ UNCHANGED <<distro, interfaces, interfaces_to_up, position, network_files>>
    /\ UNCHANGED retrieverVars

NextNet ==
    \/ EnableNetworkInterfaces
    \/ DhcpcdRelease
    \/ DhcpcdStart
    \/ WriteIfcfg
    \/ Ifup

SpecNet == InitNet /\ [][NextNet]_vars

-----------------------------------------------------------------------------
(* Properties of the retriever, checked under Spec. *)

\* GetScripts has returned result.
Returned == pc = "return"

\* The descriptor keys the attributes declare: present with a non-empty value.
Declared(attrs) == {k \in {script_key, script_url_key} : HasValue(attrs, k)}

\* The file of dest_dir with this name.
FileOf(name) == CHOOSE f \in {files[i] : i \in 1..Len(files)} : f.name = name

IsFile(name) == \E i \in 1..Len(files) : files[i].name = name

\* The file was created by the current call while it processed the
\* attributes of ph.
StagedIn(name, ph) ==
    \E i \in 1..Len(events) :
        events[i].ev = "tempfile" /\ events[i].name = name /\ events[i].phase = ph

\* The fetch attempts of the current call, in order.
Fetches == SelectSeq(events, LAMBDA e : e.ev = "fetch")

\* The mapping d is what the attributes attrs, processed as ph, give: their
\* declared keys, the inline key with a file that holds the stripped inline
\* value, each path one staged while attrs were processed.
FromAttributes(d, attrs, ph) ==
    /\ DOMAIN d = Declared(attrs)
    /\ script_key \in DOMAIN d =>
          /\ StagedIn(d[script_key], ph)
          /\ FileOf(d[script_key]).content = lstrip(attrs[script_key])
    /\ (script_url_key \in DOMAIN d /\ d[script_url_key] # None) =>
          StagedIn(d[script_url_key], ph)

\* C1: when the instance-level mapping has an entry, be it a null one,
\* GetScripts returns that mapping and has processed nothing of the project
\* attributes: every file staged and every fetch issued by the call belongs to
\* the instance attributes; and whatever is returned, its entries all come from
\* the attributes of one level.
C1_InstanceMappingShadowsProject ==
    Returned =>
      /\ DOMAIN instance_scripts # {} =>
            /\ result = instance_scripts
            /\ \A i \in 1..Len(events) :
                  events[i].ev \in {"tempfile", "fetch"} => events[i].phase = "instance"
      /\ \E ph \in {"instance", "project"} :
            \A k \in DOMAIN result :
                /\ HasValue(AttributeData(ph), k)
                /\ result[k] # None => StagedIn(result[k], ph)

\* The instance URL failed to download and the project declares scripts: the
\* null entry is returned.
C1_Witness ==
    /\ Returned
    /\ DOMAIN instance_scripts = {script_url_key}
    /\ instance_scripts[script_url_key] = None
    /\ result = instance_scripts
    /\ Declared(project_data) # {}

\* C2 as claimed: whenever the instance attributes mapping is not empty, the
\* result is what the instance attributes alone give.
C2_Original ==
    (Returned /\ ~Falsy(instance_data))
    => FromAttributes(result, instance_data, "instance")

\* C2, amended: whenever the instance attributes declare a script of the
\* retriever's type (a non-empty <type>-script or <type>-script-url), the
\* result is what the instance attributes alone give, whatever the project
\* attributes hold.
C2_DeclaringInstanceIgnoresProject ==
    (Returned /\ Declared(instance_data) # {})
    => FromAttributes(result, instance_data, "instance")

\* The project declares other script types and another inline script.
C2_Witness ==
    /\ Returned
    /\ Declared(instance_data) = {script_key}
    /\ ~Falsy(project_data)
    /\ "shutdown-script" \in DOMAIN project_data
    /\ DOMAIN result = {script_key}

\* C3: with empty or absent instance attributes and non-empty project
\* attributes, GetScripts returns the mapping the call of _GetAttributeScripts
\* on the project attributes has produced, which is what the project
\* attributes give.
C3_ProjectMappingReturned ==
    (Returned /\ Falsy(instance_data) /\ ~Falsy(project_data))
    => /\ phase = "project"
       /\ result = script_dict
       /\ FromAttributes(result, project_data, "project")

C3_Witness ==
    /\ Returned
    /\ instance_data = NoneDict
    /\ Declared(project_data) = {script_key, script_url_key}
    /\ DOMAIN result = {script_key, script_url_key}
    /\ result[script_url_key] # None

\* The URL download of the call of _GetAttributeScripts just made put the
\* fetched content into its temp file.
DownloadSucceeded ==
    /\ retry.status = "returned"
    /\ IsFile(dest)
    /\ FileOf(dest).content = retry.response

\* C4: in the mapping _GetAttributeScripts returns, each of the two keys is
\* present if and only if the attributes hold it with a non-empty value,
\* whatever holds for the other key; the inline key maps to the path of a
\* file; the URL key maps to the staged path when the download succeeded and
\* to None when it failed.
C4_KeysRecorded ==
    pc = "or" =>
      LET data == AttributeData(phase)
          attrs == IF Falsy(data) THEN EmptyDict ELSE data
      IN  /\ \A k \in {script_key, script_url_key} :
                k \in DOMAIN script_dict <=> HasValue(attrs, k)
          /\ DOMAIN script_dict \subseteq {script_key, script_url_key}
          /\ HasValue(attrs, script_key) =>
                (script_dict[script_key] # None /\ IsFile(script_dict[script_key]))
          /\ HasValue(attrs, script_url_key) =>
                script_dict[script_url_key] = IF DownloadSucceeded THEN dest ELSE None

\* Both keys declared, the download failed.
C4_Witness ==
    /\ pc = "or"
    /\ DOMAIN script_dict = {script_key, script_url_key}
    /\ script_dict[script_key] # None
    /\ script_dict[script_url_key] = None

\* C8: every fetch of _DownloadUrl goes out without the two headers and
\* without the token, and every fetch of _DownloadAuthUrl carries
\* Metadata-Flavor: Google and the cached token as Authorization.
C8_HeadersOnAuthenticatedOnly ==
    \A i \in 1..Len(events) :
        events[i].ev = "fetch" =>
            IF events[i].fn = "urlretrieve"
            THEN /\ DOMAIN events[i].headers \cap {"Authorization", "Metadata-Flavor"} = {}
                 /\ \A h \in DOMAIN events[i].headers : events[i].headers[h] # token
            ELSE /\ DOMAIN events[i].headers = {"Authorization", "Metadata-Flavor"}
                 /\ events[i].headers["Metadata-Flavor"] = "Google"
                 /\ events[i].headers["Authorization"] = token
                 /\ token # None

\* A plain fetch is made while a token is cached.
C8_Witness ==
    /\ token = "Bearer ya29"
    /\ Len(Fetches) > 0
    /\ Fetches[Len(Fetches)].fn = "urlretrieve"

\* C9: an attempt that succeeds is the last one, and when the wrapper returns,
\* every attempt before the last raised a retryable fault, the last succeeded
\* and its value is the one returned; at most 3 attempts were made.
C9_ReturnsFirstSuccess ==
    /\ \A i \in 1..Len(Fetches) : Fetches[i].outcome.kind = "ok" => i = Len(Fetches)
    /\ retry.status = "returned" =>
          /\ Len(Fetches) = retry.n
          /\ retry.n \in 1..3
          /\ \A i \in 1..(retry.n - 1) :
                Fetches[i].outcome.kind \in {"HTTPException", "socket.error", "URLError"}
          /\ Fetches[retry.n].outcome.kind = "ok"
          /\ retry.response = Fetches[retry.n].outcome.body

\* Two transient faults, then success: 3 attempts.
C9_Witness ==
    /\ retry.status = "returned"
    /\ Len(Fetches) = 3
    /\ Fetches[1].outcome.kind = "URLError"
    /\ Fetches[2].outcome.kind = "socket.error"
    /\ Fetches[3].outcome.kind = "ok"
    /\ retry.response = "#!/bin/sh"

\* C10: never more than 3 attempts; when the wrapper raises a retryable
\* fault, exactly 3 attempts were made, each raised a retryable fault, and the
\* fault raised is the one of the third attempt.
C10_RaisesLastFault ==
    /\ Len(Fetches) <= 3
    /\ (retry.status = "raised"
        /\ retry.raised.kind \in {"HTTPException", "socket.error", "URLError"}) =>
          /\ Len(Fetches) = 3
          /\ \A i \in 1..3 :
                Fetches[i].outcome.kind \in {"HTTPException", "socket.error", "URLError"}
          /\ retry.raised.attempt = 3
          /\ retry.raised.kind = Fetches[3].outcome.kind

\* Three different faults: the third is raised.
C10_Witness ==
    /\ retry.status = "raised"
    /\ Len(Fetches) = 3
    /\ Fetches[1].outcome.kind = "HTTPException"
    /\ Fetches[2].outcome.kind = "socket.error"
    /\ Fetches[3].outcome.kind = "URLError"
    /\ retry.raised = [kind |-> "URLError", attempt |-> 3]

\* C11: an attempt is followed by another one only if it raised one of the
\* three transient-network faults; an attempt that raises any other exception,
\* be it the first, the second or the third, is the last attempt, no wait
\* follows it, and the wrapper raises that exception at once, having waited
\* only after the attempts before it.
C11_OtherExceptionPropagates ==
    /\ \A i \in 1..(Len(Fetches) - 1) :
          Fetches[i].outcome.kind \in {"HTTPException", "socket.error", "URLError"}
    /\ \A i \in 1..Len(events) :
          (/\ events[i].ev = "fetch"
           /\ events[i].outcome.kind
                 \notin {"ok", "HTTPException", "socket.error", "URLError"}) =>
             /\ \A j \in (i + 1)..Len(events) : events[j].ev \notin {"fetch", "sleep"}
             /\ retry.status = "raised"
             /\ retry.raised = [kind |-> events[i].outcome.kind,
                                attempt |-> Len(Fetches)]
             /\ retry.n = Len(Fetches)
             /\ retry.slept = 5 * (Len(Fetches) - 1)

\* Two transient faults, then a ValueError on the third attempt.
C11_Witness ==
    /\ Len(Fetches) = 3
    /\ Fetches[1].outcome.kind = "socket.error"
    /\ Fetches[2].outcome.kind = "HTTPException"
    /\ Fetches[3].outcome.kind = "ValueError"
    /\ retry.raised = [kind |-> "ValueError", attempt |-> 3]
    /\ events[Len(events)].ev = "fetch"

\* The waits of the current call, in order.
Sleeps == SelectSeq(events, LAMBDA e : e.ev = "sleep")

\* C12 as claimed: every wait lasts 5 seconds, comes right after a failed
\* attempt and, once the wrapper has ended, is followed by another attempt, so
\* that a run of n attempts holds n - 1 waits.
C12_Original ==
    /\ \A i \in 1..Len(events) :
          events[i].ev = "sleep" =>
             /\ events[i].secs = 5
             /\ i > 1
             /\ events[i - 1].ev = "fetch"
             /\ events[i - 1].outcome.kind # "ok"
             /\ retry.status # "running" =>
                   \E j \in (i + 1)..Len(events) : events[j].ev = "fetch"
    /\ retry.status # "running" => Len(Sleeps) = Len(Fetches) - 1

\* The queries for the token the current call has made, in order.
TokenQueries(evs) ==
    SelectSeq(evs, LAMBDA e : e.ev = "GetMetadata" /\ e.key = token_metadata_key)

\* The temp files the current call has reserved, in order.
Reserved == SelectSeq(events, LAMBDA e : e.ev = "tempfile")

\* _DownloadAuthUrl found no token cached and its query was answered with
\* nothing (None or an empty dict).
FellBack ==
    /\ TokenQueries(events) # <<>>
    /\ TokenQueries(events)[1].answer \in {NoneDict, EmptyDict}

\* C13: when _DownloadAuthUrl has no token cached and the token query yields
\* nothing, no authenticated fetch is issued, the token stays uncached, every
\* fetch is one of _DownloadUrl for the URL _DownloadAuthUrl was given, and
\* what comes back is the result of that _DownloadUrl: the path of the file it
\* reserved, holding the fetched content, when its fetch succeeded, else None.
C13_NoTokenFallsBackToPlain ==
    FellBack =>
      /\ token = None
      /\ pc \notin {"_UrlOpenWithRetry", "raise"}
      /\ \A i \in 1..Len(Fetches) :
            /\ Fetches[i].fn = "urlretrieve"
            /\ Fetches[i].url = Route(metadata_value).url
            /\ Fetches[i].headers = <<>>
      /\ pc \in {"downloaded", "or", "return"} =>
            IF Fetches[Len(Fetches)].outcome.kind = "ok"
            THEN /\ downloaded_dest = Reserved[Len(Reserved)].name
                 /\ FileOf(downloaded_dest).content = Fetches[Len(Fetches)].outcome.body
            ELSE downloaded_dest = None

\* The query is answered with an empty dict and the plain download succeeds
\* at its second attempt.
C13_Witness ==
    /\ FellBack
    /\ TokenQueries(events)[1].answer = EmptyDict
    /\ pc = "downloaded"
    /\ Len(Fetches) = 2
    /\ downloaded_dest # None

\* C14: once the token is cached it is never changed and never cleared by any
\* step, no step queries the collaborator for a token again, and every
\* authenticated fetch made from then on sends that token, whatever the
\* outcome of earlier fetches and whatever the token response held.
C14_TokenCachedForGood ==
    [][token # None =>
         /\ token' = token
         /\ Len(TokenQueries(events')) <= Len(TokenQueries(events))
         /\ \A i \in 1..Len(events') :
               (events'[i].ev = "fetch" /\ events'[i].fn = "urlopen") =>
                  events'[i].headers["Authorization"] = token]_vars

\* The token response lacked access_token; a later call, which makes no token
\* query, sends the cached token again after an authenticated fetch has
\* failed.
C14_Witness ==
    /\ token = "Bearer "
    /\ TokenQueries(events) = <<>>
    /\ Len(Fetches) = 2
    /\ Fetches[1].fn = "urlopen"
    /\ Fetches[1].outcome.kind = "URLError"
    /\ Fetches[2].headers["Authorization"] = "Bearer "
    /\ Len(files) = 2

\* The value is a script mapping: its keys are descriptor keys, its values
\* None or the path of a file.
IsMapping(d) ==
    /\ DOMAIN d \subseteq {script_key, script_url_key}
    /\ \A k \in DOMAIN d : d[k] = None \/ IsFile(d[k])

\* C15: no exception leaves the download functions, whatever the fetches do:
\* once the wrapper has returned or raised (a retryable fault after 3 attempts
\* or any other exception at once), _DownloadAuthUrl or _DownloadUrl returns
\* the staged path or None (None whenever the wrapper raised), and what
\* _GetAttributeScripts and GetScripts return is a mapping.
C15_DownloadsNeverRaise ==
    /\ pc # "raise"
    /\ pc = "downloaded" =>
          /\ retry.status \in {"returned", "raised"}
          /\ retry.status = "raised" => downloaded_dest = None
          /\ downloaded_dest # None => IsFile(downloaded_dest)
    /\ pc = "or" => IsMapping(script_dict)
    /\ Returned => IsMapping(result)

\* The plain fetch raised a ValueError at its second attempt; GetScripts
\* returns the mapping with None for the URL.
C15_Witness ==
    /\ Returned
    /\ Len(Fetches) = 2
    /\ Fetches[2].fn = "urlretrieve"
    /\ retry.raised = [kind |-> "ValueError", attempt |-> 2]
    /\ DOMAIN result = {script_url_key}
    /\ result[script_url_key] = None

\* The temp files the current call has reserved for its URL download: those
\* reserved after _DownloadScript was called.
ReservedForDownload ==
    {events[i].name : i \in {j \in 1..Len(events) :
        /\ events[j].ev = "tempfile"
        /\ \E d \in 1..(j - 1) : events[d].ev = "_DownloadScript"}}

\* A step keeps every file, under its name and at its place, and changes the
\* content of none but a file the current call has reserved for its download
\* and left empty so far.
FilesKept ==
    /\ Len(files') >= Len(files)
    /\ \A i \in 1..Len(files) :
          /\ files'[i].name = files[i].name
          /\ files'[i].content # files[i].content =>
                /\ files[i].name \in ReservedForDownload
                /\ files[i].content = ""

\* When the mapping holds None for the URL key, the files reserved for the
\* download are in the directory, empty.
FailedDownloadLeavesEmptyFile ==
    (/\ pc \in {"or", "return"}
     /\ script_url_key \in DOMAIN script_dict
     /\ script_dict[script_url_key] = None) =>
        /\ ReservedForDownload # {}
        /\ \A name \in ReservedForDownload :
              IsFile(name) /\ FileOf(name).content = ""

LacksAttributes(r, branch) ==
    \/ r = NoneDict
    \/ branch \notin DOMAIN r
    \/ "attributes" \notin DOMAIN r[branch]

\* C17: a call of GetScripts queries the whole metadata tree exactly once, as
\* its first operation; whatever the answer lacks, the call does not raise:
\* the attributes of a branch the answer lacks are None and those of a branch
\* it has are taken from it; when the answer lacks both, the call creates no
\* file, makes no token query and no fetch, and returns the empty mapping.
C17_MissingMetadataDegrades ==
    pc # "idle" =>
      LET r == events[1].answer
      IN  /\ pc # "raise"
          /\ {i \in 1..Len(events) :
                 events[i].ev = "GetMetadata" /\ events[i].key = ""} = {1}
          /\ instance_data = IF LacksAttributes(r, "instance") THEN NoneDict
                             ELSE r["instance"]["attributes"]
          /\ project_data = IF LacksAttributes(r, "project") THEN NoneDict
                            ELSE r["project"]["attributes"]
          /\ (LacksAttributes(r, "instance") /\ LacksAttributes(r, "project")) =>
                /\ Len(events) = 1
                /\ Returned => DOMAIN result = {}
          /\ Returned => IsMapping(result)

\* The answer has an instance branch without attributes and no project
\* branch; the empty mapping is returned.
C17_Witness ==
    /\ Returned
    /\ events[1].answer = Tree(EmptyDict, AbsentDict)
    /\ instance_data = NoneDict
    /\ project_data = NoneDict
    /\ DOMAIN result = {}
    /\ phase = "project"

\* The calls of _DownloadScript the current call has made, in order.
Dispatches == SelectSeq(events, LAMBDA e : e.ev = "_DownloadScript")

\* What one call of GetScripts does at most: one URL download, one token
\* query, 3 fetch attempts, 3 waits; all attempts are for one URL and made by
\* one download function, so that a failed authenticated fetch is not
\* followed by a plain download.
CallBounded ==
    /\ Len(Dispatches) <= 1
    /\ Len(TokenQueries(events)) <= 1
    /\ Len(Fetches) <= 3
    /\ Len(Sleeps) <= 3
    /\ \A i, j \in 1..Len(Fetches) :
          /\ Fetches[i].fn = Fetches[j].fn
          /\ Fetches[i].url = Fetches[j].url

\* C19: every call of GetScripts that has started returns, and it never
\* exceeds the bounds of CallBounded.
C19_CallTerminates ==
    []CallBounded /\ ((pc \notin {"idle", "return"}) ~> Returned)

\* A call that used all it may: one token query, 3 authenticated attempts,
\* 3 waits.
C19_Witness ==
    /\ Returned
    /\ Len(Dispatches) = 1
    /\ Len(TokenQueries(events)) = 1
    /\ Len(Fetches) = 3
    /\ Fetches[3].fn = "urlopen"
    /\ Len(Sleeps) = 3

\* The paths a mapping holds.
PathsOf(d) == IF d = NoneDict THEN {} ELSE {d[k] : k \in DOMAIN d}

\* C20: when _DownloadAuthUrl has fallen back to _DownloadUrl for want of a
\* token, the call has reserved two distinct temp files for the one URL: the
\* first, reserved by _DownloadAuthUrl right before its token query, is in
\* the directory, empty, and no mapping refers to it; the second is the one
\* _DownloadUrl reserved, and the path returned after a successful fetch, and
\* recorded for the URL key, is the second.
C20_FallbackLeavesEmptyFile ==
    (FellBack /\ pc \in {"downloaded", "or", "return"}) =>
      /\ Len(Reserved) >= 2
      /\ Len(Fetches) >= 1
      /\ LET n == Len(Reserved)
             first == Reserved[n - 1].name
             second == Reserved[n].name
             succeeded == Fetches[Len(Fetches)].outcome.kind = "ok"
         IN  /\ Len(Dispatches) = 1
             /\ ReservedForDownload = {first, second}
             /\ first # second
             /\ \E i \in 1..(Len(events) - 2) :
                   /\ events[i] = Reserved[n - 1]
                   /\ events[i + 1] = TokenQueries(events)[1]
                   /\ events[i + 2] = Reserved[n]
             /\ IsFile(first) /\ FileOf(first).content = ""
             /\ first \notin PathsOf(script_dict) \cup PathsOf(instance_scripts)
                                \cup PathsOf(result)
             /\ first # downloaded_dest
             /\ IsFile(second)
             /\ downloaded_dest = IF succeeded THEN second ELSE None
             /\ pc \in {"or", "return"} =>
                   script_dict[script_url_key] = downloaded_dest
             /\ Returned => result[script_url_key] = downloaded_dest

\* An inline script and a URL: three files, the second left empty and
\* unreferenced, the third returned for the URL.
C20_Witness ==
    /\ FellBack
    /\ Returned
    /\ Len(files) = 3
    /\ files[2].content = ""
    /\ files[3].content = "#!/bin/sh"
    /\ result[script_key] = files[1].name
    /\ result[script_url_key] = files[3].name

-----------------------------------------------------------------------------
(* Properties of the URL classifier, checked under SpecUrl. *)

\* _DownloadScript has chosen the download function for metadata_value.
Dispatched == pc \in {"_DownloadAuthUrl", "_DownloadUrl"}

\* C5: every URL that starts with gs:// is routed to _DownloadAuthUrl, whatever
\* follows the prefix, and the URL handed over is https://storage.googleapis.com/
\* followed by the original without its leading gs://.
C5_GsRewrittenAndAuthenticated ==
    (Dispatched /\ Len(metadata_value) >= 5 /\ SubSeq(metadata_value, 1, 5) = "gs://")
    => /\ pc = "_DownloadAuthUrl"
       /\ url = "https://storage.googleapis.com/"
                \o SubSeq(metadata_value, 6, Len(metadata_value))

C5_Witness ==
    /\ pc = "_DownloadAuthUrl"
    /\ metadata_value = "gs://bucket/object"
    /\ url = "https://storage.googleapis.com/bucket/object"

\* C6 as claimed: the three URLs with the bucket b are routed to
\* _DownloadAuthUrl, https://example.com/script.sh to _DownloadUrl.
C6_Original ==
    Dispatched =>
      /\ metadata_value \in {"http://b.storage.googleapis.com/o",
                             "https://storage.googleapis.com/b/o",
                             "https://commondatastorage.googleapis.com/b/o"}
            => pc = "_DownloadAuthUrl"
      /\ metadata_value = "https://example.com/script.sh" => pc = "_DownloadUrl"

\* C6, amended: the three URL forms select _DownloadAuthUrl when the bucket
\* name has at least two characters (bk); with the one-character bucket b they
\* match no pattern and select _DownloadUrl, as https://example.com/script.sh
\* does.
C6_TwoCharacterBucket ==
    Dispatched =>
      /\ metadata_value \in {"http://bk.storage.googleapis.com/o",
                             "https://storage.googleapis.com/bk/o",
                             "https://commondatastorage.googleapis.com/bk/o"}
            => (pc = "_DownloadAuthUrl" /\ url = metadata_value)
      /\ metadata_value \in {"http://b.storage.googleapis.com/o",
                             "https://storage.googleapis.com/b/o",
                             "https://commondatastorage.googleapis.com/b/o",
                             "https://example.com/script.sh"}
            => (pc = "_DownloadUrl" /\ url = metadata_value)

C6_Witness ==
    /\ pc = "_DownloadAuthUrl"
    /\ metadata_value = "https://commondatastorage.googleapis.com/bk/o"

\* The position of the first c in str, 0 when there is none.
IndexOf(str, c) ==
    LET at == {i \in 1..Len(str) : Char(str, i) = c}
    IN  IF at = {} THEN 0 ELSE CHOOSE i \in at : \A j \in at : i <= j

EndsWith(str, suffix) ==
    /\ Len(suffix) <= Len(str)
    /\ SubSeq(str, Len(str) - Len(suffix) + 1, Len(str)) = suffix

\* What follows http:// or https://; the empty string for another scheme.
AfterScheme(u) ==
    IF Len(u) >= 8 /\ SubSeq(u, 1, 8) = "https://" THEN SubSeq(u, 9, Len(u))
    ELSE IF Len(u) >= 7 /\ SubSeq(u, 1, 7) = "http://" THEN SubSeq(u, 8, Len(u))
    ELSE ""

\* <bucket>: [a-z0-9][-_.a-z0-9]*[a-z0-9]
IsBucket(b) ==
    /\ Len(b) >= 2
    /\ Char(b, 1) \in Lower \cup Digit
    /\ Char(b, Len(b)) \in Lower \cup Digit
    /\ \A i \in 1..Len(b) : Char(b, i) \in Lower \cup Digit \cup {"-", "_", "."}

\* <object>: not empty, neither * nor ? in it
IsObject(o) == Len(o) >= 1 /\ \A i \in 1..Len(o) : Char(o, i) \notin {"*", "?"}

\* http(s)://<bucket>.storage.googleapis.com/<object>: the host is what
\* precedes the first / after the scheme, the object all that follows it.
IsHostStyle(u) ==
    LET rest == AfterScheme(u)
        slash == IndexOf(rest, "/")
        host == SubSeq(rest, 1, slash - 1)
        suffix == ".storage.googleapis.com"
    IN  /\ slash > 0
        /\ EndsWith(host, suffix)
        /\ IsBucket(SubSeq(host, 1, Len(host) - Len(suffix)))
        /\ IsObject(SubSeq(rest, slash + 1, Len(rest)))

\* http(s)://(commondata)?storage.googleapis.com/<bucket>/<object>: the bucket
\* is what lies between the first two / after the scheme.
IsPathStyle(u) ==
    LET rest == AfterScheme(u)
        slash == IndexOf(rest, "/")
        path == SubSeq(rest, slash + 1, Len(rest))
        cut == IndexOf(path, "/")
    IN  /\ slash > 0
        /\ SubSeq(rest, 1, slash - 1) \in {"storage.googleapis.com",
                                          "commondatastorage.googleapis.com"}
        /\ cut > 0
        /\ IsBucket(SubSeq(path, 1, cut - 1))
        /\ IsObject(SubSeq(path, cut + 1, Len(path)))

\* C7: a URL is routed to _DownloadAuthUrl if and only if it starts with gs://
\* or is, as a whole, of the host style or of the path style; every other URL
\* is routed to _DownloadUrl; a URL of the two http(s) styles is handed over
\* unchanged, as is a URL routed to _DownloadUrl.
C7_AuthenticatedIffGoogleStorage ==
    Dispatched =>
      /\ pc = "_DownloadAuthUrl"
            <=> \/ (Len(metadata_value) >= 5 /\ SubSeq(metadata_value, 1, 5) = "gs://")
                \/ IsHostStyle(metadata_value)
                \/ IsPathStyle(metadata_value)
      /\ (IsHostStyle(metadata_value) \/ IsPathStyle(metadata_value)
          \/ pc = "_DownloadUrl") => url = metadata_value

\* An upper-case host, a wildcard in the object and a prefix before the scheme
\* each send a URL to _DownloadUrl.
C7_Witness ==
    /\ pc = "_DownloadUrl"
    /\ metadata_value \in {"https://bk.Storage.googleapis.com/o",
                           "https://storage.googleapis.com/bk/o*",
                           "xhttp://storage.googleapis.com/bk/o"}

-----------------------------------------------------------------------------
(* Properties of the inline staging, checked under SpecInline. *)

\* C18: for every non-empty inline value v, _GetAttributeScripts creates a
\* file that was not in dest_dir, leaves the other files as they were, and
\* maps the inline key to its path; the content c of the file is v without
\* its leading whitespace: c is the rest of v after a prefix made of
\* whitespace only, and c does not start with whitespace, so that trailing
\* and inner whitespace are kept.  For "  echo hi" the content is "echo hi".
C18_InlineStagedLeftStripped ==
    pc = "or" =>
      LET v == instance_data[script_key]
          path == script_dict[script_key]
          c == FileOf(path).content
          n == Len(files)
      IN  /\ DOMAIN script_dict = {script_key}
          /\ StagedIn(path, "instance")
          /\ files[n].name = path
          /\ \A i \in 1..(n - 1) :
                files[i] = [name |-> "tmp1", content |-> "echo old"]
                /\ files[i].name # path
          /\ \E k \in 0..Len(v) :
                /\ c = SubSeq(v, k + 1, Len(v))
                /\ \A i \in 1..k : Char(v, i) \in {" ", "\t", "\n", "\r"}
          /\ c = "" \/ Char(c, 1) \notin {" ", "\t", "\n", "\r"}
          /\ v = "  echo hi" => c = "echo hi"

\* Leading, inner and trailing whitespace: only the leading part goes.
C18_Witness ==
    /\ pc = "or"
    /\ instance_data[script_key] = " \r\n#!/bin/sh\necho  1 \t "
    /\ Len(files) = 2
    /\ files[2].content = "#!/bin/sh\necho  1 \t "
    /\ script_dict[script_key] = "tmp2"

-----------------------------------------------------------------------------
(* Properties of EnableNetworkInterfaces, checked under SpecNet. *)

\* The listed interfaces other than eth0, in list order.
Listed == SelectSeq(interfaces, LAMBDA i : i # "eth0")

\* What the k-th operation of a call is to be: on SLES 11 dhcpcd -x and then
\* dhcpcd for each interface of Listed in turn; on SLES 12 the ifcfg file of
\* each interface of Listed in turn, then one wicked ifup of them all.
ExpectedOp(k) ==
    IF distro = "sles_11"
    THEN [op |-> "check_call",
          argv |-> IF k % 2 = 1
                   THEN <<"/sbin/dhcpcd", "-x", Listed[(k + 1) \div 2]>>
                   ELSE <<"/sbin/dhcpcd", Listed[k \div 2]>>]
    ELSE IF k <= Len(Listed)
    THEN [op |-> "write",
          path |-> "$LOCALBASE/etc/sysconfig/network/ifcfg-" \o Listed[k]]
    ELSE [op |-> "check_call",
          argv |-> <<"/usr/sbin/wicked", "ifup", "--timeout", "1">> \o Listed]

\* How many operations a whole call makes.
ExpectedLen ==
    IF Listed = <<>> THEN 0
    ELSE IF distro = "sles_11" THEN 2 * Len(Listed)
    ELSE Len(Listed) + 1

\* The operation concerns eth0.
OnEth0(o) ==
    IF o.op = "write" THEN o.path = "$LOCALBASE/etc/sysconfig/network/ifcfg-eth0"
    ELSE \E j \in 1..Len(o.argv) : o.argv[j] = "eth0"

FailedCalls ==
    SelectSeq(ops, LAMBDA o : o.op = "check_call" /\ o.outcome = "CalledProcessError")

FailureLogs ==
    SelectSeq(logged, LAMBDA l :
        l.msg \in {"Dhcpcd not yet running for interface %s.",
                   "Could not activate interface %s.",
                   "Could not activate interfaces %s."})

\* C21: whatever the list, EnableNetworkInterfaces of SLES 11 and SLES 12
\* never acts on eth0: no command names it and its ifcfg file is neither
\* written nor changed; the commands run and the files written are, in
\* order, those of the listed interfaces other than eth0 (on SLES 12 every
\* file before the one ifup call); a list that is empty or holds only eth0
\* gives no command, no file and no log; every failing command is logged,
\* and the call goes on to the end whatever commands fail.
C21_Eth0NeverEnabled ==
    /\ network_files["$LOCALBASE/etc/sysconfig/network/ifcfg-eth0"] = "STARTMODE=auto"
    /\ \A k \in 1..Len(ops) : ~OnEth0(ops[k])
    /\ Len(ops) <= ExpectedLen
    /\ \A k \in 1..Len(ops) :
          IF ops[k].op = "write"
          THEN [op |-> "write", path |-> ops[k].path] = ExpectedOp(k)
          ELSE [op |-> "check_call", argv |-> ops[k].argv] = ExpectedOp(k)
    /\ net_pc = "done" => Len(ops) = ExpectedLen
    /\ Listed = <<>> =>
          /\ ops = <<>>
          /\ logged = <<>>
          /\ network_files \in NetworkFilesBefore
    /\ Len(FailureLogs) = Len(FailedCalls)
    /\ \A k \in 1..Len(FailedCalls) :
          FailureLogs[k].arg =
             IF distro = "sles_11"
             THEN <<FailedCalls[k].argv[Len(FailedCalls[k].argv)]>>
             ELSE Listed

\* SLES 11, eth0 listed between eth1 and eth2: both commands of eth1 fail,
\* those of eth2 are run all the same.
C21_Witness ==
    /\ distro = "sles_11"
    /\ interfaces = <<"eth1", "eth0", "eth2">>
    /\ net_pc = "done"
    /\ Len(ops) = 4
    /\ ops[1].outcome = "CalledProcessError"
    /\ ops[2].outcome = "CalledProcessError"
    /\ ops[4] = [op |-> "check_call", argv |-> <<"/sbin/dhcpcd", "eth2">>,
                 outcome |-> "ok"]
    /\ Len(logged) = 3

====
